---- MODULE Spec2Model ----
(***************************************************************************)
(* Model of the development static file servers of granny-smith:           *)
(*   scripts/dev_server.py    (primary variant: cache suppression, root    *)
(*                             redirect, optional fallback root)           *)
(*   tests/e2e/test_server.py (test variant: COOP/COEP headers)            *)
(* Strings are sequences of one-character strings, so that split,          *)
(* startswith, lstrip, percent-decoding and path normalisation are         *)
(* computed character by character as the Python code computes them.       *)
(* The literal "index.html" is kept as one symbol of the alphabet.         *)
(***************************************************************************)
EXTENDS Integers, Sequences, FiniteSets, TLC

VARIABLES variant, args, fs, cwd, pc, exitStatus, socket, rootChecked,
          directory, fallback_root, default_params, req, resp

vars == <<variant, args, fs, cwd, pc, exitStatus, socket, rootChecked,
          directory, fallback_root, default_params, req, resp>>

\* ------------------------------------------------------------------ bounds
\* Longest request path, counted in path segments.
MaxSegs == 2

\* ------------------------------------------------------- program constants
DefaultPortDev == 8080
DefaultPortTest == 18080

\* ------------------------------------------------------------ string tools
StartsWith(s, p) == Len(s) >= Len(p) /\ SubSeq(s, 1, Len(p)) = p

EndsWith(s, p) == Len(s) >= Len(p) /\ SubSeq(s, Len(s) - Len(p) + 1, Len(s)) = p

Contains(s, c) == \E i \in 1..Len(s) : s[i] = c

\* Index of the first occurrence of the character c in s, 0 when absent.
IndexOf(s, c) ==
  IF Contains(s, c) THEN CHOOSE i \in 1..Len(s) : s[i] = c /\ \A j \in 1..(i - 1) : s[j] # c
  ELSE 0

\* s.split(c, 1) as the pair <<head, tail>>; the tail is empty when c is absent.
CutAt(s, i) ==
  IF i = 0 THEN <<s, <<>>>> ELSE <<SubSeq(s, 1, i - 1), SubSeq(s, i + 1, Len(s))>>

SplitOnce(s, c) == CutAt(s, IndexOf(s, c))

\* s.split(c): the sequence of the pieces between occurrences of c.
RECURSIVE Split(_, _)
Split(s, c) ==
  IF ~Contains(s, c) THEN <<s>>
  ELSE <<SplitOnce(s, c)[1]>> \o Split(SplitOnce(s, c)[2], c)

\* c.join(parts)
RECURSIVE Join(_, _)
Join(parts, c) ==
  IF parts = <<>> THEN <<>>
  ELSE IF Len(parts) = 1 THEN parts[1]
  ELSE parts[1] \o <<c>> \o Join(Tail(parts), c)

\* s.lstrip(c)
RECURSIVE LStrip(_, _)
LStrip(s, c) == IF s # <<>> /\ s[1] = c THEN LStrip(Tail(s), c) ELSE s

\* s.rstrip(): trailing white space removed.
RECURSIVE RStrip(_)
RStrip(s) == IF s # <<>> /\ s[Len(s)] = " " THEN RStrip(SubSeq(s, 1, Len(s) - 1)) ELSE s

\* The hexadecimal escapes the request alphabet can spell, with their characters.
HexPairs == {<<"2", "E">>, <<"7", "8">>}

HexChar(p) == IF p = <<"2", "E">> THEN "." ELSE "x"

\* urllib.parse.unquote: every %XY escape is replaced by its character.
RECURSIVE Unquote(_)
Unquote(s) ==
  IF s = <<>> THEN <<>>
  ELSE IF s[1] = "%" /\ Len(s) >= 3 /\ <<s[2], s[3]>> \in HexPairs
       THEN <<HexChar(<<s[2], s[3]>>)>> \o Unquote(SubSeq(s, 4, Len(s)))
       ELSE <<s[1]>> \o Unquote(Tail(s))

\* urllib.parse.urlsplit of a request target that starts with one slash:
\* the fragment is cut at the first '#', then the query at the first '?'.
UrlSplit(url) ==
  [path |-> SplitOnce(SplitOnce(url, "#")[1], "?")[1],
   query |-> SplitOnce(SplitOnce(url, "#")[1], "?")[2],
   fragment |-> SplitOnce(url, "#")[2]]

\* posixpath.normpath
RECURSIVE NormComps(_, _, _)
NormComps(comps, acc, initial) ==
  IF comps = <<>> THEN acc
  ELSE LET comp == Head(comps)
           rest == Tail(comps)
       IN IF comp = <<>> \/ comp = <<".">> THEN NormComps(rest, acc, initial)
          ELSE IF comp # <<".", ".">>
                  \/ (~initial /\ acc = <<>>)
                  \/ (acc # <<>> /\ acc[Len(acc)] = <<".", ".">>)
               THEN NormComps(rest, Append(acc, comp), initial)
               ELSE IF acc # <<>>
                    THEN NormComps(rest, SubSeq(acc, 1, Len(acc) - 1), initial)
                    ELSE NormComps(rest, acc, initial)

\* The slashes normpath keeps in front: two when the path starts with exactly two.
InitialSlashes(path) ==
  IF StartsWith(path, <<"/", "/">>) /\ ~StartsWith(path, <<"/", "/", "/">>) THEN <<"/", "/">>
  ELSE IF StartsWith(path, <<"/">>) THEN <<"/">>
  ELSE <<>>

DotIfEmpty(path) == IF path = <<>> THEN <<".">> ELSE path

NormPath(path) ==
  DotIfEmpty(InitialSlashes(path)
             \o Join(NormComps(Split(path, "/"), <<>>, StartsWith(path, <<"/">>)), "/"))

\* os.path.join(a, b)
OsPathJoin(a, b) ==
  IF StartsWith(b, <<"/">>) THEN b
  ELSE IF a = <<>> \/ EndsWith(a, <<"/">>) THEN a \o b
  ELSE a \o <<"/">> \o b

\* ------------------------------------------------------------- file system
\* A node is the sequence of names from the file-system root.
NodeA == << <<"A">> >>
NodeB == << <<"B">> >>
NodeAx == << <<"A">>, <<"x">> >>
NodeBx == << <<"B">>, <<"x">> >>
NodeBd == << <<"B">>, <<"d">> >>
NodeOutside == << <<"x">> >>

\* os.path.abspath
Abspath(p) == NormPath(OsPathJoin(cwd, p))

\* The kernel's resolution of an absolute path: '..' and '.' are followed, every
\* component that is walked through is a directory, a trailing slash asks for one.
RECURSIVE Walk(_, _)
Walk(comps, cur) ==
  IF comps = <<>> THEN [ok |-> cur \in fs.dirs \cup fs.files, node |-> cur]
  ELSE IF cur \notin fs.dirs THEN [ok |-> FALSE, node |-> cur]
  ELSE LET comp == Head(comps)
       IN IF comp = <<>> \/ comp = <<".">> THEN Walk(Tail(comps), cur)
          ELSE IF comp = <<".", ".">>
               THEN Walk(Tail(comps), IF cur = <<>> THEN cur ELSE SubSeq(cur, 1, Len(cur) - 1))
               ELSE Walk(Tail(comps), Append(cur, comp))

Resolve(path) == Walk(Split(path, "/"), <<>>)

FoundDir(r) == r.ok /\ r.node \in fs.dirs

FoundFile(r) == r.ok /\ r.node \in fs.files

\* os.path.exists, os.path.isdir, os.path.isfile
Exists(path) == Resolve(path).ok

IsDir(path) == FoundDir(Resolve(path))

IsFile(path) == FoundFile(Resolve(path))

Under(node, dir) == Len(node) >= Len(dir) /\ SubSeq(node, 1, Len(dir)) = dir

\* The file systems the server is started on.
FileSystems ==
  { [dirs |-> {<<>>, NodeB} \cup d, files |-> f] :
      d \in SUBSET {NodeA, NodeBd}, f \in SUBSET {NodeA, NodeAx, NodeBx, NodeOutside} }

WellFormed(f) ==
  /\ f.dirs \cap f.files = {}
  /\ \A n \in f.dirs \cup f.files : n = <<>> \/ SubSeq(n, 1, Len(n) - 1) \in f.dirs

\* ------------------------------------------------------------- responses
NoReq == [method |-> "none", path |-> <<>>]

NoResp == [kind |-> "none", status |-> 0, headers |-> <<>>, body |-> FALSE,
           read |-> <<>>, primary |-> <<>>, fallback |-> <<>>, translated |-> <<>>]

NoSocket == [host |-> "none", port |-> 0]

\* BaseHTTPRequestHandler.send_response: the status line, then Server and Date.
SendResponse(r, code) ==
  [r EXCEPT !.status = code,
            !.headers = @ \o << <<"Server", "SimpleHTTP">>, <<"Date", "now">> >>]

SendHeader(r, name, value) == [r EXCEPT !.headers = Append(@, <<name, value>>)]

\* end_headers that forgets the Expires header.
DevEndHeadersNoExpires(r) ==
  SendHeader(SendHeader(r,
    "Cache-Control", "no-cache, no-store, must-revalidate, max-age=0"),
    "Pragma", "no-cache")

\* Handler.end_headers of scripts/dev_server.py
DevEndHeaders(r) ==
  SendHeader(SendHeader(SendHeader(r,
    "Cache-Control", "no-cache, no-store, must-revalidate, max-age=0"),
    "Pragma", "no-cache"),
    "Expires", "0")

\* end_headers that forgets the embedder policy.
TestEndHeadersNoCOEP(r) == SendHeader(r, "Cross-Origin-Opener-Policy", "same-origin")

\* Handler.end_headers of tests/e2e/test_server.py
TestEndHeaders(r) ==
  SendHeader(SendHeader(r,
    "Cross-Origin-Opener-Policy", "same-origin"),
    "Cross-Origin-Embedder-Policy", "require-corp")

\* self.end_headers(): the method of the class the server was built with.
EndHeaders(r) == IF variant = "dev" THEN DevEndHeaders(r) ELSE TestEndHeaders(r)

\* BaseHTTPRequestHandler.send_error
SendError(r, code, method) ==
  LET a == SendResponse(r, code)
      b == SendHeader(a, "Connection", "close")
      c == SendHeader(b, "Content-Type", "text/html;charset=utf-8")
      d == SendHeader(c, "Content-Length", "n")
  IN [EndHeaders(d) EXCEPT !.kind = "error", !.body = (method # "HEAD")]

\* ------------------------------------------------------- path translation
RECURSIVE JoinWords(_, _)
JoinWords(path, words) ==
  IF words = <<>> THEN path
  ELSE LET word == Head(words)
       IN IF word = <<>> \/ Contains(word, "/") \/ word = <<".">> \/ word = <<".", ".">>
          THEN JoinWords(path, Tail(words))
          ELSE JoinWords(OsPathJoin(path, word), Tail(words))

\* SimpleHTTPRequestHandler.translate_path, reached through super().translate_path
\* The request target without its query and fragment: path.split('?',1)[0].split('#',1)[0]
PathPart(path) == SplitOnce(SplitOnce(path, "?")[1], "#")[1]

WithTrailingSlash(out, trailing_slash) == IF trailing_slash THEN out \o <<"/">> ELSE out

SimpleTranslatePath(path) ==
  WithTrailingSlash(JoinWords(directory, Split(NormPath(Unquote(PathPart(path))), "/")),
                    EndsWith(RStrip(PathPart(path)), <<"/">>))

\* Handler.translate_path of scripts/dev_server.py
\* A translation that stays with the primary path.
Primary(primary) == [primary |-> primary, fallback |-> <<>>, path |-> primary]

\* The fallback candidate is returned when it exists, the primary path otherwise.
PickFallback(primary, fallback) ==
  [primary |-> primary, fallback |-> fallback,
   path |-> IF Exists(fallback) THEN fallback ELSE primary]

\* clean = urllib.parse.unquote(urllib.parse.urlparse(path).path).lstrip('/')
Clean(path) == LStrip(Unquote(UrlSplit(path).path), "/")

\* Handler.translate_path of scripts/dev_server.py, primary being
\* super().translate_path(path)
DevTranslateFrom(path, primary) ==
  IF Exists(primary) \/ fallback_root = <<>>
  THEN Primary(primary)
  ELSE PickFallback(primary, OsPathJoin(fallback_root, Clean(path)))

DevTranslatePath(path) == DevTranslateFrom(path, SimpleTranslatePath(path))

\* self.translate_path(): overridden in the primary variant only.
TranslatePath(path) ==
  IF variant = "dev" THEN DevTranslatePath(path)
  ELSE Primary(SimpleTranslatePath(path))

IndexHtml == <<"index.html">>
IndexHtm == <<"index.htm">>

\* SimpleHTTPRequestHandler.list_directory
ListDirectory(r, path, method) ==
  LET a == SendResponse(r, 200)
      b == SendHeader(a, "Content-type", "text/html; charset=utf-8")
      c == SendHeader(b, "Content-Length", "n")
  IN [EndHeaders(c) EXCEPT !.kind = "listing", !.read = path, !.body = (method # "HEAD")]

\* The tail of SimpleHTTPRequestHandler.send_head: the file at path is opened and sent.
SendFile(r, path, method) ==
  IF EndsWith(path, <<"/">>) \/ ~IsFile(path)
  THEN SendError(r, 404, method)
  ELSE LET a == SendResponse(r, 200)
           b == SendHeader(a, "Content-type", "guessed")
           c == SendHeader(b, "Content-Length", "n")
           d == SendHeader(c, "Last-Modified", "mtime")
       IN [EndHeaders(d) EXCEPT !.kind = "file", !.read = path, !.body = (method # "HEAD")]

\* urllib.parse.urlunsplit of the request target with a slash added to its path.
DirRedirectUrl(parts) ==
  parts.path \o <<"/">>
    \o (IF parts.query # <<>> THEN <<"?">> \o parts.query ELSE <<>>)
    \o (IF parts.fragment # <<>> THEN <<"#">> \o parts.fragment ELSE <<>>)

\* The 301 that sends the browser to the directory's URL with a trailing slash.
DirRedirect(r, new_url) ==
  [EndHeaders(SendHeader(SendHeader(SendResponse(r, 301), "Location", new_url),
                         "Content-Length", "0"))
     EXCEPT !.kind = "redirect_dir"]

\* A response in the making, with the path translation it rests on.
Pending(t) ==
  [NoResp EXCEPT !.kind = "pending", !.primary = t.primary,
                 !.fallback = t.fallback, !.translated = t.path]

\* SimpleHTTPRequestHandler.send_head from the translated path on.
SendHeadAt(t, path, method) ==
  IF IsDir(t.path)
  THEN IF ~EndsWith(UrlSplit(path).path, <<"/">>)
       THEN DirRedirect(Pending(t), DirRedirectUrl(UrlSplit(path)))
       ELSE IF IsFile(OsPathJoin(t.path, IndexHtml))
            THEN SendFile(Pending(t), OsPathJoin(t.path, IndexHtml), method)
            ELSE IF IsFile(OsPathJoin(t.path, IndexHtm))
                 THEN SendFile(Pending(t), OsPathJoin(t.path, IndexHtm), method)
                 ELSE ListDirectory(Pending(t), t.path, method)
  ELSE SendFile(Pending(t), t.path, method)

\* SimpleHTTPRequestHandler.send_head followed by the copy of the body (do_GET)
\* or by closing the file (do_HEAD).
SendHead(path, method) == SendHeadAt(TranslatePath(path), path, method)

\* A redirect query that lets the default parameters win over the request's own.
RedirectQueryDefaultFirst(path) ==
  IF default_params # <<>> THEN <<"?">> \o default_params
  ELSE IF Contains(path, "?") THEN <<"?">> \o SplitOnce(path, "?")[2]
  ELSE <<>>

\* The query string of the root redirect: the request's own, else the default
\* parameters, else none.
RedirectQuery(path) ==
  IF Contains(path, "?") THEN <<"?">> \o SplitOnce(path, "?")[2]
  ELSE IF default_params # <<>> THEN <<"?">> \o default_params
  ELSE <<>>

\* Handler.do_GET of scripts/dev_server.py
DevDoGET(path) ==
  IF path = <<"/">> \/ StartsWith(path, <<"/", "?">>)
  THEN DevEndHeaders(SendHeader(SendResponse([NoResp EXCEPT !.kind = "redirect_root"], 302),
                                "Location", <<"/">> \o IndexHtml \o RedirectQuery(path)))
  ELSE SendHead(path, "GET")

\* ---------------------------------------------------------------- inputs
\* The path segments a request is spelled with, and what may follow them.
SegChunks == { <<"/", "x">>, <<"/", "d">>, <<"/", ".", ".">>, <<"/", "%", "7", "8">> }

Suffixes == { <<>>, <<"?", "q">>, <<"?", "q", "?", "r">>, <<"#", "f">> }

RECURSIVE SegStrings(_)
SegStrings(n) ==
  IF n = 0 THEN {<<>>}
  ELSE LET shorter == SegStrings(n - 1)
       IN shorter \cup { s \o c : s \in shorter, c \in SegChunks }

\* Request targets: they start with a slash.
Paths ==
  { s \o t \o u : s \in SegStrings(MaxSegs), t \in {<<>>, <<"/">>}, u \in Suffixes }
    \ Suffixes

Ports == {DefaultPortDev, DefaultPortTest}

Arguments ==
  [root : {<<"A">>}, port : Ports, fallback_root : {<<>>, <<"B">>},
   default_params : {<<>>, <<"a", "=", "1">>}]

\* ------------------------------------------------------------------- state
Init ==
  /\ variant \in {"dev", "test"}
  /\ args \in Arguments
  /\ variant = "test" => args.fallback_root = <<>> /\ args.default_params = <<>>
  /\ fs \in {f \in FileSystems : WellFormed(f)}
  /\ cwd = <<"/">>
  /\ pc = "start"
  /\ exitStatus = -1
  /\ socket = NoSocket
  /\ rootChecked = FALSE
  /\ directory = <<>>
  /\ fallback_root = <<>>
  /\ default_params = <<>>
  /\ req = NoReq
  /\ resp = NoResp

\* ---------------------------------------------- main of scripts/dev_server.py
\* A main that sets the handler up without looking at the root.
DevMainSkipCheck ==
  /\ variant = "dev"
  /\ pc = "start"
  /\ rootChecked' = TRUE
  /\ pc' = "ready"
  /\ fallback_root' = IF args.fallback_root # <<>>
                      THEN Abspath(args.fallback_root) ELSE fallback_root
  /\ default_params' = IF args.default_params # <<>>
                       THEN args.default_params ELSE default_params
  /\ UNCHANGED <<variant, args, fs, cwd, exitStatus, socket, directory, req, resp>>

\* root = os.path.abspath(a.root); SystemExit with a message when it is no
\* directory; otherwise the class attributes are set from the arguments.
DevMainCheckRoot ==
  /\ variant = "dev"
  /\ pc = "start"
  /\ rootChecked' = TRUE
  /\ IF ~IsDir(Abspath(args.root))
     THEN /\ pc' = "exited"
          /\ exitStatus' = 1
          /\ UNCHANGED <<fallback_root, default_params>>
     ELSE /\ pc' = "ready"
          /\ exitStatus' = exitStatus
          /\ fallback_root' = IF args.fallback_root # <<>>
                              THEN Abspath(args.fallback_root) ELSE fallback_root
          /\ default_params' = IF args.default_params # <<>>
                               THEN args.default_params ELSE default_params
  /\ UNCHANGED <<variant, args, fs, cwd, socket, directory, req, resp>>

\* httpd = HTTPServer(('localhost', a.port), partial(Handler, directory=root))
DevMainBind ==
  /\ variant = "dev"
  /\ pc = "ready"
  /\ socket' = [host |-> "localhost", port |-> args.port]
  /\ directory' = Abspath(args.root)
  /\ pc' = "serving"
  /\ UNCHANGED <<variant, args, fs, cwd, exitStatus, rootChecked,
                 fallback_root, default_params, req, resp>>

\* ------------------------------------------ main of tests/e2e/test_server.py
\* os.chdir(args.root) raises when the root is no directory.
TestMainChdir ==
  /\ variant = "test"
  /\ pc = "start"
  /\ rootChecked' = TRUE
  /\ IF ~IsDir(Abspath(args.root))
     THEN /\ pc' = "exited"
          /\ exitStatus' = 1
          /\ cwd' = cwd
     ELSE /\ pc' = "ready"
          /\ exitStatus' = exitStatus
          /\ cwd' = Abspath(args.root)
  /\ UNCHANGED <<variant, args, fs, socket, directory, fallback_root,
                 default_params, req, resp>>

\* socketserver.TCPServer(('', args.port), Handler); the handler serves os.getcwd().
TestMainBind ==
  /\ variant = "test"
  /\ pc = "ready"
  /\ socket' = [host |-> "", port |-> args.port]
  /\ directory' = cwd
  /\ pc' = "serving"
  /\ UNCHANGED <<variant, args, fs, cwd, exitStatus, rootChecked,
                 fallback_root, default_params, req, resp>>

\* The bind raises OSError when the port is taken: the process aborts.
BindFails ==
  /\ pc = "ready"
  /\ pc' = "exited"
  /\ exitStatus' = 1
  /\ UNCHANGED <<variant, args, fs, cwd, socket, rootChecked, directory,
                 fallback_root, default_params, req, resp>>

\* KeyboardInterrupt ends serve_forever and with it any request in progress; the
\* test variant's with-block closes the socket.
Interrupt ==
  /\ pc = "serving"
  /\ pc' = "stopped"
  /\ exitStatus' = 0
  /\ socket' = IF variant = "test" THEN NoSocket ELSE socket
  /\ req' = NoReq
  /\ resp' = NoResp
  /\ UNCHANGED <<variant, args, fs, cwd, rootChecked, directory,
                 fallback_root, default_params>>

\* ---------------------------------------------------------------- requests
Serve(method, path, response) ==
  /\ pc = "serving"
  /\ req = NoReq
  /\ req' = [method |-> method, path |-> path]
  /\ resp' = response
  /\ UNCHANGED <<variant, args, fs, cwd, pc, exitStatus, socket, rootChecked,
                 directory, fallback_root, default_params>>

\* GET on the primary variant: Handler.do_GET
DevGET(path) == variant = "dev" /\ Serve("GET", path, DevDoGET(path))

\* HEAD on the primary variant: the inherited do_HEAD
DevHEAD(path) == variant = "dev" /\ Serve("HEAD", path, SendHead(path, "HEAD"))

\* GET and HEAD on the test variant: the inherited do_GET and do_HEAD
TestGET(path) == variant = "test" /\ Serve("GET", path, SendHead(path, "GET"))

TestHEAD(path) == variant = "test" /\ Serve("HEAD", path, SendHead(path, "HEAD"))

\* The response is sent and the request context is discarded.
Finish ==
  /\ req # NoReq
  /\ req' = NoReq
  /\ resp' = NoResp
  /\ UNCHANGED <<variant, args, fs, cwd, pc, exitStatus, socket, rootChecked,
                 directory, fallback_root, default_params>>

Next ==
  \/ DevMainCheckRoot
  \/ DevMainBind
  \/ TestMainChdir
  \/ TestMainBind
  \/ BindFails
  \/ Interrupt
  \/ \E path \in Paths : DevGET(path)
  \/ \E path \in Paths : DevHEAD(path)
  \/ \E path \in Paths : TestGET(path)
  \/ \E path \in Paths : TestHEAD(path)
  \/ Finish

Spec == Init /\ [][Next]_vars

\* ------------------------------------------------------------------ claims
HasHeader(r, name, value) ==
  \E i \in DOMAIN r.headers : r.headers[i][1] = name /\ r.headers[i][2] = value

HasHeaderNamed(r, name) == \E i \in DOMAIN r.headers : r.headers[i][1] = name

Responded == resp.kind # "none"

\* The request asks for the root: '/' or '/?...'.
RootRequest == req.path = <<"/">> \/ StartsWith(req.path, <<"/", "?">>)

\* The directory the server was started on is an existing directory.
RootIsDir == NodeA \in fs.dirs

\* The part of an absolute path below the directory it starts with.
Below(path, dir) == SubSeq(path, Len(dir) + 1, Len(path))

\* C1: in the primary variant a GET for '/' or '/?...' is answered by a 302 whose
\* Location is '/index.html' followed by the request's own '?...' when it has one,
\* else by '?' and the configured default parameters, else by nothing; no file is
\* read or sent.
C1_RootRedirectLocation ==
  (variant = "dev" /\ req.method = "GET" /\ RootRequest) =>
    /\ resp.status = 302
    /\ HasHeader(resp, "Location",
                 <<"/", "index.html">>
                   \o (IF req.path # <<"/">> THEN Tail(req.path)
                       ELSE IF args.default_params # <<>>
                            THEN <<"?">> \o args.default_params
                            ELSE <<>>))
    /\ resp.read = <<>>
    /\ ~resp.body

C1_Witness ==
  /\ variant = "dev"
  /\ args.default_params # <<>>
  /\ req = [method |-> "GET", path |-> <<"/", "?", "q", "?", "r">>]
  /\ resp.status = 302
  /\ HasHeader(resp, "Location", <<"/", "index.html", "?", "q", "?", "r">>)

\* C2: for every request the primary variant translates, the path under root is
\* returned when it exists; else the same path under fallbackRoot when a fallback
\* is configured and that path exists; else the path under root.
C2_FallbackOrder ==
  (variant = "dev" /\ resp.primary # <<>>) =>
    resp.translated =
      IF Exists(resp.primary) THEN resp.primary
      ELSE IF fallback_root # <<>> /\ Exists(fallback_root \o Below(resp.primary, directory))
           THEN fallback_root \o Below(resp.primary, directory)
           ELSE resp.primary

\* C3: whatever file or directory a response is read from lies under root or,
\* when a fallback is configured, under fallbackRoot.
C3_ReadsStayUnderRoots ==
  resp.read # <<>> =>
    \/ Under(Resolve(resp.read).node, Resolve(directory).node)
    \/ /\ fallback_root # <<>>
       /\ Under(Resolve(resp.read).node, Resolve(fallback_root).node)

\* C4: every response of the primary variant, whatever its outcome, carries the
\* three cache-suppression headers.
C4_CacheHeadersOnEveryResponse ==
  (variant = "dev" /\ Responded) =>
    /\ HasHeader(resp, "Cache-Control", "no-cache, no-store, must-revalidate, max-age=0")
    /\ HasHeader(resp, "Pragma", "no-cache")
    /\ HasHeader(resp, "Expires", "0")

C4_Witness ==
  /\ variant = "dev"
  /\ resp.kind = "error"
  /\ resp.status = 404
  /\ HasHeader(resp, "Expires", "0")

\* C5: a socket is bound only after the root was checked and found to be a
\* directory; started on a root that is no directory, the process never gets
\* past the check, binds nothing and exits with a non-zero status.
C5_RootCheckedBeforeBind ==
  /\ socket # NoSocket => rootChecked /\ RootIsDir
  /\ ~RootIsDir =>
       /\ pc \in {"start", "exited"}
       /\ socket = NoSocket
       /\ pc = "exited" => exitStatus > 0

C5_Witness ==
  /\ variant = "dev"
  /\ ~RootIsDir
  /\ rootChecked
  /\ pc = "exited"
  /\ exitStatus = 1
  /\ socket = NoSocket

\* C6: the fallback candidate is fallbackRoot joined with the same relative path
\* that the primary resolution uses under root.
C6_SameRelativePath ==
  resp.fallback # <<>> =>
    Below(resp.fallback, fallback_root) = Below(resp.primary, directory)

\* C7: every response of the test variant, errors included, carries both
\* cross-origin isolation headers and none of the cache-suppression headers.
C7_IsolationHeadersOnEveryResponse ==
  (variant = "test" /\ Responded) =>
    /\ HasHeader(resp, "Cross-Origin-Opener-Policy", "same-origin")
    /\ HasHeader(resp, "Cross-Origin-Embedder-Policy", "require-corp")
    /\ ~HasHeaderNamed(resp, "Cache-Control")
    /\ ~HasHeaderNamed(resp, "Pragma")
    /\ ~HasHeaderNamed(resp, "Expires")

C7_Witness ==
  /\ variant = "test"
  /\ resp.kind = "error"
  /\ resp.status = 404
  /\ HasHeader(resp, "Cross-Origin-Embedder-Policy", "require-corp")

\* C8: in both variants the listening socket is bound to the loopback interface,
\* at the configured port.
C8_LoopbackOnly ==
  socket # NoSocket =>
    /\ socket.host \in {"localhost", "127.0.0.1", "::1"}
    /\ socket.port = args.port

\* C9: no response is a listing of the fallback directory or of a directory
\* beneath it.
C9_FallbackNeverListed ==
  ~ /\ resp.kind = "listing"
    /\ fallback_root # <<>>
    /\ Under(Resolve(resp.read).node, Resolve(fallback_root).node)

\* C10: in the primary variant a request for '/' or '/?...' is answered by the
\* 302 root redirect whatever its method, GET or HEAD, and never reaches the
\* static-file resolution.
C10_RedirectWhateverMethod ==
  (variant = "dev" /\ req.method \in {"GET", "HEAD"} /\ RootRequest) =>
    /\ resp.status = 302
    /\ resp.kind = "redirect_root"
    /\ resp.primary = <<>>

====
